---- MODULE Spec2Model ----
(***************************************************************************)
(* naive-input-lsp: the Keymap trie (src/src/main.rs 8-64) and the         *)
(* Backend's document store and completion handler (66-167).               *)
(*                                                                         *)
(* A char is its Unicode scalar value (92 is the backslash, 10 the line    *)
(* feed, 32 the space, 62 '>', 97 'a', 98 'b', 120 'x', 121 'y', 122 'z',  *)
(* 411 the two-byte letter U+019B).  A String is a sequence of chars.  An  *)
(* Option is a sequence of length 0 (None) or 1 (Some).                    *)
(***************************************************************************)
EXTENDS Integers, Sequences, FiniteSets, TLC

VARIABLES
    json,       \* the serde_json::Value read from keymap.json (main, 171-174)
    keymap,     \* Backend.keymap (69)
    documents,  \* Backend.documents (70): a function from the stored uris to texts
    latest,     \* history: the text of the latest open/change notification per stored uri
    closed,     \* history: the uris closed and not opened or changed since
    inflight,   \* completion handlers suspended at log_message(..).await (154-156)
    returned,   \* Option: what the completion handler that just finished returned
    crashed,    \* a handler panicked
    query,      \* Option: the latest direct call of Keymap::lookup and its result
    phase,      \* "uninitialized", "initialized" or "shutdown": what the client has asked
    waiting,    \* Option: the notification handler that waits inside insert or remove
    shard       \* the shard of the DashMap that the hash of each uri selects

vars == <<json, keymap, documents, latest, closed, inflight, returned, crashed, query,
          phase, waiting, shard>>

----------------------------------------------------------------------------
(* Bounds of the model.                                                    *)

\* the largest trie drawn: number of edges plus number of terminal values
MaxTrieWeight == 5
\* the longest prefix handed to a direct lookup
MaxPrefixLen == 3
\* the largest configuration document drawn: keys plus array elements
MaxJsonWeight == 4
\* the number of chars the document store holds, over all documents
MaxStored == 3
\* the number of completion handlers suspended at the same time
MaxInflight == 1

----------------------------------------------------------------------------
(* Strings.                                                                *)

Min(a, b) == IF a < b THEN a ELSE b

\* char::len_utf8: the number of bytes of a char in a str
len_utf8(c) == IF c < 128 THEN 1 ELSE IF c < 2048 THEN 2 ELSE IF c < 65536 THEN 3 ELSE 4

\* str::len: the length in bytes
RECURSIVE len(_)
len(s) == IF s = <<>> THEN 0 ELSE len_utf8(Head(s)) + len(Tail(s))

\* all strings over chars of at most n chars
StringsUpTo(chars, n) == UNION {[1..m -> chars] : m \in 0..n}

\* the position of the first / last occurrence of char c in s, 0 when there is none
IndexOf(s, c) ==
    IF \E i \in 1..Len(s) : s[i] = c
    THEN CHOOSE i \in 1..Len(s) : s[i] = c /\ \A j \in 1..(i - 1) : s[j] # c
    ELSE 0

LastIndexOf(s, c) ==
    IF \E i \in 1..Len(s) : s[i] = c
    THEN CHOOSE i \in 1..Len(s) : s[i] = c /\ \A j \in (i + 1)..Len(s) : s[j] # c
    ELSE 0

\* the multiset of the elements of a sequence: element -> number of occurrences
Count(s, x) == Cardinality({i \in 1..Len(s) : s[i] = x})

Included(s, t) == \A i \in 1..Len(s) : Count(s, s[i]) <= Count(t, s[i])

----------------------------------------------------------------------------
(* HashMap<char, Keymap> (11): a sequence of entries [k, v] with distinct  *)
(* keys; the order of the sequence is the order values() yields.           *)

MapHas(map, c) == \E i \in 1..Len(map) : map[i].k = c

\* HashMap::get: an Option
MapGet(map, c) ==
    IF MapHas(map, c) THEN <<(map[CHOOSE i \in 1..Len(map) : map[i].k = c]).v>> ELSE <<>>

\* HashMap::insert: the value of an existing key is replaced
MapInsert(map, c, z) ==
    IF MapHas(map, c)
    THEN [i \in 1..Len(map) |-> IF map[i].k = c THEN [k |-> c, v |-> z] ELSE map[i]]
    ELSE Append(map, [k |-> c, v |-> z])

----------------------------------------------------------------------------
(* serde_json::Value: [t, s, a, o] with t the variant, s the chars of a    *)
(* String, a the elements of an Array, o the entries [k, v] of an Object   *)
(* in the order its iterator yields them.                                  *)

JNull == [t |-> "null", s |-> <<>>, a |-> <<>>, o |-> <<>>]
JString(str) == [t |-> "string", s |-> str, a |-> <<>>, o |-> <<>>]
JArray(elems) == [t |-> "array", s |-> <<>>, a |-> elems, o |-> <<>>]
JObject(entries) == [t |-> "object", s |-> <<>>, a |-> <<>>, o |-> entries]

\* the marker key ">>"
Marker == <<62, 62>>

\* obj.get(">>").and_then(|a| a.as_array()): an Option of the elements
MarkerArray(obj) ==
    IF \E i \in 1..Len(obj) : obj[i].k = Marker /\ obj[i].v.t = "array"
    THEN <<(obj[CHOOSE i \in 1..Len(obj) : obj[i].k = Marker]).v.a>>
    ELSE <<>>

\* pushing at the front
RECURSIVE PushStringsFront(_)
PushStringsFront(syms) ==
    IF syms = <<>> THEN <<>>
    ELSE PushStringsFront(Tail(syms))
             \o (IF Head(syms).t = "string" THEN <<Head(syms).s>> ELSE <<>>)

\* syms.iter().for_each(|s| s.as_str().iter().for_each(|x| here.push(..)))
RECURSIVE PushStrings(_)
PushStrings(syms) ==
    IF syms = <<>> THEN <<>>
    ELSE (IF Head(syms).t = "string" THEN <<Head(syms).s>> ELSE <<>>)
             \o PushStrings(Tail(syms))

\* Keymap::load: an Option<Keymap>
RECURSIVE load(_), LoadEntries(_, _)
load(value) ==
    IF value.t # "object" THEN <<>>
    ELSE <<[here |-> IF MarkerArray(value.o) = <<>> THEN <<>>
                     ELSE PushStrings(MarkerArray(value.o)[1]),
            cont |-> LoadEntries(value.o, <<>>)]>>

\* the loop "for (k, v) in obj" over the entries left, cont being built
LoadEntries(entries, cont) ==
    IF entries = <<>> THEN cont
    ELSE LET e == Head(entries)
         IN  LoadEntries(Tail(entries),
                 IF e.k # Marker /\ e.k # <<>> /\ load(e.v) # <<>>
                 THEN MapInsert(cont, Head(e.k), load(e.v)[1])
                 ELSE cont)

EmptyKeymap == [here |-> <<>>, cont |-> <<>>]

\* Keymap::new
new(value) == IF load(value) = <<>> THEN EmptyKeymap ELSE load(value)[1]

----------------------------------------------------------------------------
(* Keymap::lookup.                                                         *)

\* flatten that does not descend into the children's children
RECURSIVE flattenShallow(_)
flattenShallow(map) ==
    IF map = <<>> THEN <<>> ELSE Head(map).v.here \o flattenShallow(Tail(map))

\* flatten that follows the first value only
RECURSIVE flattenFirst(_)
flattenFirst(map) ==
    IF map = <<>> THEN <<>> ELSE Head(map).v.here \o flattenFirst(Head(map).v.cont)

\* fn flatten inside Keymap::get
RECURSIVE flatten(_)
flatten(map) ==
    IF map = <<>> THEN <<>>
    ELSE Head(map).v.here \o flatten(Head(map).v.cont) \o flatten(Tail(map))

\* the subtree first, the node's own values last
CollectSubtreeFirst(k) == flatten(k.cont) \o k.here

\* the else arm of Keymap::get: the prefix is consumed
Collect(k) == k.here \o flatten(k.cont)

\* falling back to the deepest node reached
NoMatchFallsBack(k, prefix) == Collect(k)

\* the no-match arm of map_or in Keymap::get
NoMatch(k, prefix) == <<>>

\* Keymap::get
RECURSIVE get(_, _)
get(k, prefix) ==
    IF prefix # <<>>
    THEN IF MapGet(k.cont, Head(prefix)) = <<>>
         THEN NoMatch(k, prefix)
         ELSE get(MapGet(k.cont, Head(prefix))[1], Tail(prefix))
    ELSE Collect(k)

lookup(k, prefix) == get(k, prefix)

----------------------------------------------------------------------------
(* The configuration documents and tries drawn.                            *)

\* the number of keys and array elements of a document; a marker key costs mc
RECURSIVE JsonWeight(_, _), EntriesWeight(_, _)
JsonWeight(value, mc) ==
    IF value.t = "array" THEN Len(value.a)
    ELSE IF value.t = "object" THEN EntriesWeight(value.o, mc)
    ELSE 0

EntriesWeight(entries, mc) ==
    IF entries = <<>> THEN 0
    ELSE (IF Head(entries).k = Marker THEN mc ELSE 1)
             + JsonWeight(Head(entries).v, mc) + EntriesWeight(Tail(entries), mc)

\* the ways to write (or leave out) the marker entry within weight w.
\* p = [keys: the other keys, in the order of the object's iterator,
\*      elems: the values an array holds, others: the values that are no object,
\*      mc: the weight of a marker key]
MarkerEntries(w, p) ==
    {<<>>}
      \cup (IF w < p.mc THEN {}
            ELSE {<<[k |-> Marker, v |-> x]>> : x \in p.others}
                   \cup {<<[k |-> Marker, v |-> JArray(a)]>> :
                            a \in StringsUpTo(p.elems, w - p.mc) \ {<<>>}}
                   \cup (IF p.mc = 0 THEN {} ELSE {<<[k |-> Marker, v |-> JArray(<<>>)]>>}))

\* the values of weight v under a key; table[v + 1] is the set of the objects
\* of weight v
ValuesOfWeight(v, p, table) == table[v + 1] \cup (IF v = 0 THEN p.others ELSE {})

\* the entries of weight w under the keys left
RECURSIVE JsonEntries(_, _, _, _)
JsonEntries(w, keys, p, table) ==
    IF keys = <<>> THEN (IF w = 0 THEN {<<>>} ELSE {})
    ELSE JsonEntries(w, Tail(keys), p, table)
           \cup UNION {{<<[k |-> Head(keys), v |-> val]>> \o rest :
                           val \in ValuesOfWeight(v, p, table),
                           rest \in JsonEntries(w - 1 - v, Tail(keys), p, table)} :
                          v \in 0..(w - 1)}

\* the ways to write the marker entry with weight m exactly
MarkerEntriesOfWeight(m, p) == {e \in MarkerEntries(m, p) : EntriesWeight(e, p.mc) = m}

\* the objects of weight w, table holding those of the weights below
ObjectsOfWeight(w, p, table) ==
    UNION {{JObject(m \o es) :
               m \in MarkerEntriesOfWeight(mw, p),
               es \in JsonEntries(w - mw, p.keys, p, table)} :
              mw \in 0..w}

\* table, <<the objects of weight 0, .. >>, grown up to the objects of weight w
RECURSIVE JsonTable(_, _, _)
JsonTable(table, w, p) ==
    IF Len(table) > w THEN table
    ELSE CHOOSE grown \in {JsonTable(next, w, p) :
                              next \in {Append(table, ObjectsOfWeight(Len(table), p, table))}} :
             TRUE

\* the objects of weight at most w
JsonObjects(w, p) == UNION {table[v] : v \in 1..(w + 1), table \in {JsonTable(<<>>, w, p)}}

\* well-formed documents: one-char keys "a" and "b", arrays of the strings "x", "y"
TrieChars == {97, 98}
Syms == {<<120>>, <<121>>}
WellFormed ==
    [keys |-> <<(<<97>>), (<<98>>)>>, elems |-> {JString(s) : s \in Syms},
     others |-> {}, mc |-> 0]

\* documents as they come: keys of one and two chars, two of them with the same
\* first char, values that are no object, array elements that are no string
Quirky ==
    [keys |-> <<(<<97>>), (<<97, 98>>), (<<98>>)>>,
     elems |-> {JString(s) : s \in Syms} \cup {JNull},
     others |-> {JNull}, mc |-> 1]

\* s with e put in at position i
InsertAt(s, i, e) == SubSeq(s, 1, i - 1) \o <<e>> \o SubSeq(s, i, Len(s))

\* HashMap's iteration order is not the insertion order: every order of every
\* node's children is a Keymap the same load can yield
RECURSIVE Reorderings(_), ContOrders(_)
Reorderings(k) == {[here |-> k.here, cont |-> c] : c \in ContOrders(k.cont)}

ContOrders(cont) ==
    IF cont = <<>> THEN {<<>>}
    ELSE UNION {UNION {{InsertAt(rest, i, [k |-> Head(cont).k, v |-> child]) :
                           i \in 1..(Len(rest) + 1)} :
                          child \in Reorderings(Head(cont).v)} :
                   rest \in ContOrders(Tail(cont))}

----------------------------------------------------------------------------
(* The store and the handlers at rest.                                     *)

NoDocuments == [u \in {} |-> <<>>]

BackendIdle ==
    /\ documents = NoDocuments
    /\ latest = NoDocuments
    /\ closed = {}
    /\ inflight = {}
    /\ returned = <<>>
    /\ crashed = FALSE
    /\ phase = "uninitialized"
    /\ waiting = <<>>

----------------------------------------------------------------------------
(* SpecLookup: Keymap::new on the documents drawn and Keymap::lookup on    *)
(* the tries built, the prefix growing one char at a time.                 *)

InitLookup ==
    /\ json \in JsonObjects(MaxTrieWeight, WellFormed) \cup JsonObjects(MaxJsonWeight, Quirky)
                 \cup Quirky.others
    /\ keymap \in Reorderings(new(json))
    /\ query = <<>>
    /\ BackendIdle
    /\ shard = [uri \in {} |-> 0]

Asked(prefix) == <<[prefix |-> prefix, result |-> lookup(keymap, prefix)]>>

\* keymap.lookup("")
LookupEmpty ==
    /\ query' = Asked(<<>>)
    /\ UNCHANGED <<json, keymap, documents, latest, closed, inflight, returned, crashed,
                   phase, waiting, shard>>

\* keymap.lookup(p + c) after keymap.lookup(p)
LookupLonger(c) ==
    /\ query # <<>>
    /\ Len(query[1].prefix) < MaxPrefixLen
    /\ query' = Asked(Append(query[1].prefix, c))
    /\ UNCHANGED <<json, keymap, documents, latest, closed, inflight, returned, crashed,
                   phase, waiting, shard>>

NextLookup ==
    \/ LookupEmpty
    \/ \E c \in TrieChars : LookupLonger(c)

SpecLookup == InitLookup /\ [][NextLookup]_vars

----------------------------------------------------------------------------
(* Backend (66-71): the document store.  DashMap<Url, String> is a         *)
(* function from the stored uris to their texts.                           *)

Uris == {"u1", "u2"}

\* the chars of the texts: line feed, backslash, 'a', the two-byte U+019B
TextChars == {10, 92, 97, 411}

\* the number of chars a store holds
RECURSIVE Stored(_)
Stored(map) ==
    IF DOMAIN map = {} THEN 0
    ELSE LET u == CHOOSE u \in DOMAIN map : TRUE
         IN  Len(map[u]) + Stored([v \in DOMAIN map \ {u} |-> map[v]])

\* the text is added to the text held
DashInsertAppends(map, uri, text) ==
    [u \in DOMAIN map \cup {uri} |->
        IF u = uri THEN (IF uri \in DOMAIN map THEN map[uri] ELSE <<>>) \o text ELSE map[u]]

\* the other entries are dropped
DashInsertAlone(map, uri, text) == [u \in {uri} |-> text]

\* DashMap::insert
DashInsert(map, uri, text) ==
    [u \in DOMAIN map \cup {uri} |-> IF u = uri THEN text ELSE map[u]]

\* the entry is kept
DashRemoveKeeps(map, uri) == map

\* DashMap::remove
DashRemove(map, uri) == [u \in DOMAIN map \ {uri} |-> map[u]]

\* DashMap::get: an Option; the Ref it returns holds the read lock of the entry
DashGet(map, uri) == IF uri \in DOMAIN map THEN <<map[uri]>> ELSE <<>>

\* the shards a run may have: the two uris hash to one shard or to two
Shards == 0..1

\* a suspended completion holds the Ref of the document it read (116), which
\* is the read lock of the document's shard: an insert or remove of a uri of
\* that shard waits for it
Held(uri) == \E task \in inflight : task.seen # <<>> /\ shard[task.uri] = shard[uri]

\* Server::serve polls every handler on the one task that main awaits, and the
\* locks of the DashMap block the thread: while a handler waits inside insert
\* or remove, no handler is polled
Polled == ~crashed /\ waiting = <<>>

\* the requests and notifications of a session are served between initialize
\* and shutdown, one response written at a time
Serving == Polled /\ phase = "initialized" /\ returned = <<>>

\* the handler waits for the write lock of the shard of uri
Waits(handler, uri) == waiting' = <<[handler |-> handler, uri |-> uri]>>

----------------------------------------------------------------------------
(* Backend::completion (112-162).                                          *)

\* str::lines: split after every line feed, the line feed (and a carriage
\* return before it) cut off
RECURSIVE lines(_)
lines(text) ==
    IF text = <<>> THEN <<>>
    ELSE LET i == IndexOf(text, 10)
             l == SubSeq(text, 1, i - 1)
         IN  IF i = 0 THEN <<text>>
             ELSE <<(IF l # <<>> /\ l[Len(l)] = 13 THEN SubSeq(l, 1, Len(l) - 1) ELSE l)>>
                      \o lines(SubSeq(text, i + 1, Len(text)))

\* Iterator::nth: an Option
nth(seq, n) == IF n + 1 <= Len(seq) THEN <<seq[n + 1]>> ELSE <<>>

\* l.chars().take(n).collect::<String>()
take(l, n) == SubSeq(l, 1, Min(n, Len(l)))

\* str::rsplit_once: an Option of the parts before and after the last c
rsplit_once(l, c) ==
    IF LastIndexOf(l, c) = 0 THEN <<>>
    ELSE <<[before |-> SubSeq(l, 1, LastIndexOf(l, c) - 1),
            after |-> SubSeq(l, LastIndexOf(l, c) + 1, Len(l))]>>

\* the line is not cut at the cursor
CursorLineWhole(document, position) ==
    IF document = <<>> THEN <<>> ELSE nth(lines(document[1]), position.line)

\* "let line" (118-125): the addressed line up to the cursor, an Option
CursorLine(document, position) ==
    IF document = <<>> \/ nth(lines(document[1]), position.line) = <<>> THEN <<>>
    ELSE <<take(nth(lines(document[1]), position.line)[1], position.character)>>

\* "let prefix" (127): what follows the last backslash, an Option
TriggerPrefix(line) ==
    IF line = <<>> \/ rsplit_once(line[1], 92) = <<>> THEN <<>>
    ELSE <<rsplit_once(line[1], 92)[1].after>>

\* the check is left out
IsEmptyPrefixNever(prefix) == FALSE

\* prefix.len() == 0 (130)
IsEmptyPrefix(prefix) == len(prefix) = 0

\* position.character - (prefix.len() as u32) - 1 (144).  A u32 is held as its
\* 32 bits read as a signed integer: below 0 the subtraction has overflowed,
\* and the value is 2^32 more than the integer held
StartCharacter(position, prefix) == position.character - len(prefix) - 1

\* the CompletionItems (133-152), one per string found
Items(prefix, position, found) ==
    [i \in 1..Len(found) |->
        [label |-> prefix \o <<32>> \o found[i],
         start |-> [line |-> position.line, character |-> StartCharacter(position, prefix)],
         end |-> position,
         new_text |-> found[i]]]

\* One call of the handler up to its return or to the await of 154-156:
\*   seen     the Option<text> that documents.get returned (116)
\*   looked   the Option<prefix> handed to keymap.lookup (135)
\*   response the Option<items> of Ok(..) (131, 158, 160)
\*   awaits   the handler reaches log_message(..).await
\*   overflow the subtraction of 144 is evaluated and overflows
Call(uri, position) ==
    LET document == DashGet(documents, uri)
        prefix == TriggerPrefix(CursorLine(document, position))
        base == [uri |-> uri, position |-> position, seen |-> document]
    IN  IF prefix = <<>> \/ IsEmptyPrefix(prefix[1])
        THEN base @@ [looked |-> <<>>, response |-> <<>>, awaits |-> FALSE, overflow |-> FALSE]
        ELSE LET found == lookup(keymap, prefix[1])
             IN  base @@ [looked |-> prefix,
                          response |-> <<Items(prefix[1], position, found)>>,
                          awaits |-> TRUE,
                          overflow |-> found # <<>> /\ StartCharacter(position, prefix[1]) < 0]

\* the lines and columns of the requests
Positions == [line : 0..2, character : 0..4]

\* completion, from the request to Ok(None) or to the await.  An overflow at
\* 144 panics when the build checks overflow and wraps when it does not.
Completion(uri, position) ==
    /\ Serving
    /\ Cardinality(inflight) < MaxInflight
    /\ LET call == Call(uri, position)
       IN  \/ /\ ~call.awaits
              /\ returned' = <<call>>
              /\ UNCHANGED <<inflight, crashed>>
           \/ /\ call.awaits
              /\ inflight' = inflight \cup {call}
              /\ UNCHANGED <<returned, crashed>>
           \/ /\ call.overflow
              /\ crashed' = TRUE
              /\ UNCHANGED <<inflight, returned>>
    /\ UNCHANGED <<json, keymap, documents, latest, closed, query, phase, waiting, shard>>

\* log_message is done: Ok(Some(CompletionResponse::Array(items))), the Ref dropped
CompletionResume(call) ==
    /\ Polled
    /\ returned = <<>>
    /\ call \in inflight
    /\ inflight' = inflight \ {call}
    /\ returned' = <<call>>
    /\ UNCHANGED <<json, keymap, documents, latest, closed, crashed, query, phase, waiting, shard>>

\* the response is written to the client
Deliver ==
    /\ Polled
    /\ returned # <<>>
    /\ returned' = <<>>
    /\ UNCHANGED <<json, keymap, documents, latest, closed, inflight, crashed, query,
                   phase, waiting, shard>>

----------------------------------------------------------------------------
(* The notifications (96-110).                                             *)

\* the text a notification carries for uri is the latest one of uri
Notified(uri, text) ==
    /\ latest' = [u \in DOMAIN latest \cup {uri} |-> IF u = uri THEN text ELSE latest[u]]
    /\ closed' = closed \ {uri}

\* the length of the texts a notification for uri can carry within the bound
\* of the store; the text of a handler that is left waiting is never stored,
\* and the empty text stands for all
Room(uri) == IF Held(uri) THEN 0 ELSE MaxStored - Stored(DashRemove(documents, uri))

\* did_open
DidOpen(uri, text) ==
    /\ Serving
    /\ IF Held(uri)
       THEN /\ Waits("did_open", uri)
            /\ UNCHANGED <<documents, latest, closed>>
       ELSE /\ documents' = DashInsert(documents, uri, text)
            /\ Notified(uri, text)
            /\ UNCHANGED waiting
    /\ UNCHANGED <<json, keymap, inflight, returned, crashed, query, phase, shard>>

\* did_change; content_changes[0] panics when there is no change.  With full
\* sync a notification holds one change, the whole text; it may hold none
DidChange(uri, content_changes) ==
    /\ Serving
    /\ IF content_changes = <<>>
       THEN /\ crashed' = TRUE
            /\ UNCHANGED <<documents, latest, closed, waiting>>
       ELSE IF Held(uri)
       THEN /\ Waits("did_change", uri)
            /\ UNCHANGED <<documents, latest, closed, crashed>>
       ELSE /\ documents' = DashInsert(documents, uri, content_changes[1])
            /\ Notified(uri, content_changes[1])
            /\ UNCHANGED <<crashed, waiting>>
    /\ UNCHANGED <<json, keymap, inflight, returned, query, phase, shard>>

\* the keymap is reset when a document is closed
DidCloseResets(uri) ==
    /\ Serving
    /\ ~Held(uri)
    /\ documents' = DashRemove(documents, uri)
    /\ latest' = [u \in DOMAIN latest \ {uri} |-> latest[u]]
    /\ closed' = closed \cup {uri}
    /\ keymap' = EmptyKeymap
    /\ UNCHANGED <<json, inflight, returned, crashed, query, phase, waiting, shard>>

\* did_close
DidClose(uri) ==
    /\ Serving
    /\ IF Held(uri)
       THEN /\ Waits("did_close", uri)
            /\ UNCHANGED <<documents, latest, closed>>
       ELSE /\ documents' = DashRemove(documents, uri)
            /\ latest' = [u \in DOMAIN latest \ {uri} |-> latest[u]]
            /\ closed' = closed \cup {uri}
            /\ UNCHANGED waiting
    /\ UNCHANGED <<json, keymap, inflight, returned, crashed, query, phase, shard>>

\* initialize (75-94): the log message, then the capabilities
Initialize ==
    /\ Polled
    /\ phase = "uninitialized"
    /\ phase' = "initialized"
    /\ UNCHANGED <<json, keymap, documents, latest, closed, inflight, returned, crashed, query,
                   waiting, shard>>

\* shutdown (164-166): Ok(())
Shutdown ==
    /\ Serving
    /\ phase' = "shutdown"
    /\ UNCHANGED <<json, keymap, documents, latest, closed, inflight, returned, crashed, query,
                   waiting, shard>>

----------------------------------------------------------------------------
(* Spec: the server.                                                       *)

\* {"a": {">>": ["x", "y"], "ƛ": {">>": ["z"]}}} and {}
ServedConfigs ==
    {JObject(<<[k |-> <<97>>,
                v |-> JObject(<<[k |-> Marker,
                                 v |-> JArray(<<JString(<<120>>), JString(<<121>>)>>)],
                                [k |-> <<411>>,
                                 v |-> JObject(<<[k |-> Marker,
                                                  v |-> JArray(<<JString(<<122>>)>>)]>>)]>>)]>>),
     JObject(<<>>)}

\* main (169-180)
Init ==
    /\ json \in ServedConfigs
    /\ keymap \in Reorderings(new(json))
    /\ query = <<>>
    /\ BackendIdle
    /\ shard \in {hash \in [Uris -> Shards] : hash["u1"] = 0}

Next ==
    \/ Initialize
    \/ Shutdown
    \/ \E uri \in Uris : \E n \in 0..Room(uri) : \E text \in [1..n -> TextChars] :
           DidOpen(uri, text)
    \/ \E uri \in Uris : \E n \in 0..Room(uri) : \E text \in [1..n -> TextChars] :
           DidChange(uri, <<text>>)
    \/ \E uri \in Uris : DidChange(uri, <<>>)
    \/ \E uri \in Uris : DidClose(uri)
    \/ \E uri \in Uris, position \in Positions : Completion(uri, position)
    \/ \E call \in inflight : CompletionResume(call)
    \/ Deliver

Spec == Init /\ [][Next]_vars

\* the handlers that are ready are polled: a suspended completion is resumed
\* when its log message is sent, a response returned is written
SpecLive ==
    /\ Spec
    /\ WF_vars(\E call \in inflight : CompletionResume(call))
    /\ WF_vars(Deliver)

----------------------------------------------------------------------------
(* The nodes of a trie, by the path of chars that leads to them.           *)

\* the node at the end of path from n: an Option
RECURSIVE Walk(_, _)
Walk(n, path) ==
    IF path = <<>> THEN <<n>>
    ELSE IF MapHas(n.cont, Head(path))
         THEN Walk((n.cont[CHOOSE i \in 1..Len(n.cont) : n.cont[i].k = Head(path)]).v, Tail(path))
         ELSE <<>>

\* the paths from n to its proper descendants
RECURSIVE DescendantPaths(_)
DescendantPaths(n) ==
    UNION {{<<n.cont[i].k>>} \cup {<<n.cont[i].k>> \o q : q \in DescendantPaths(n.cont[i].v)} :
              i \in 1..Len(n.cont)}

\* over the nodes at paths from n: the number of terminal values, and of those equal to x
RECURSIVE TerminalsAt(_, _), OccurrencesAt(_, _, _)
TerminalsAt(n, paths) ==
    IF paths = {} THEN 0
    ELSE LET q == CHOOSE q \in paths : TRUE
         IN  Len(Walk(n, q)[1].here) + TerminalsAt(n, paths \ {q})

OccurrencesAt(n, paths, x) ==
    IF paths = {} THEN 0
    ELSE LET q == CHOOSE q \in paths : TRUE
         IN  Count(Walk(n, q)[1].here, x) + OccurrencesAt(n, paths \ {q}, x)

----------------------------------------------------------------------------
(* C1: when every char of the prefix has a matching child, lookup returns  *)
(* the values of the node reached, in their registered order, followed by  *)
(* the terminal values of all its proper descendants, each occurrence      *)
(* kept, none missing, none extra.                                         *)
C1_OwnThenDescendants ==
    query # <<>> /\ Walk(keymap, query[1].prefix) # <<>> =>
        LET n == Walk(keymap, query[1].prefix)[1]
            r == query[1].result
            tail == SubSeq(r, Len(n.here) + 1, Len(r))
        IN  /\ Len(r) >= Len(n.here)
            /\ SubSeq(r, 1, Len(n.here)) = n.here
            /\ Len(tail) = TerminalsAt(n, DescendantPaths(n))
            /\ \A x \in Syms : Count(tail, x) = OccurrencesAt(n, DescendantPaths(n), x)

\* a non-empty prefix reaches a node with two values of its own, above a
\* descendant that repeats one of them
C1_Witness ==
    /\ query # <<>>
    /\ query[1].prefix # <<>>
    /\ Walk(keymap, query[1].prefix) # <<>>
    /\ LET n == Walk(keymap, query[1].prefix)[1]
       IN  /\ Len(n.here) = 2
           /\ n.here[1] # n.here[2]
           /\ Len(query[1].result) > 2
           /\ Count(query[1].result, n.here[1]) = 2

(* C2: lookup("") on the root returns every terminal value of the tree,    *)
(* and as many values as the nodes of the tree hold together.              *)
C2_EmptyPrefixFlattensAll ==
    query # <<>> /\ query[1].prefix = <<>> =>
        LET all == DescendantPaths(keymap) \cup {<<>>}
        IN  /\ Len(query[1].result) = TerminalsAt(keymap, all)
            /\ \A q \in all : \A i \in 1..Len(Walk(keymap, q)[1].here) :
                   Count(query[1].result, Walk(keymap, q)[1].here[i]) >= 1

\* the empty prefix on a tree with values at the root, a child and a grandchild
C2_Witness ==
    /\ query # <<>>
    /\ query[1].prefix = <<>>
    /\ keymap.here # <<>>
    /\ \E q \in DescendantPaths(keymap) :
           /\ Len(q) = 2
           /\ Walk(keymap, q)[1].here # <<>>
           /\ Walk(keymap, SubSeq(q, 1, 1))[1].here # <<>>
    /\ Len(query[1].result) >= 3

(* C3: when some char of the prefix has no matching child, lookup returns  *)
(* the empty sequence: no partial match, no fallback.                      *)
C3_NoBranchNoResult ==
    query # <<>> /\ Walk(keymap, query[1].prefix) = <<>> => query[1].result = <<>>

\* the first char matches a node that has values, the second has no child
C3_Witness ==
    /\ query # <<>>
    /\ Len(query[1].prefix) = 2
    /\ Walk(keymap, SubSeq(query[1].prefix, 1, 1)) # <<>>
    /\ lookup(keymap, SubSeq(query[1].prefix, 1, 1)) # <<>>
    /\ Walk(keymap, query[1].prefix) = <<>>
    /\ query[1].result = <<>>

(* C4: every output of lookup(p + c) occurs in lookup(p) at least as       *)
(* often: one more char never brings in an output.                         *)
C4_NarrowingAddsNothing ==
    [][(/\ query # <<>>
        /\ query' # <<>>
        /\ Len(query'[1].prefix) = Len(query[1].prefix) + 1)
          => Included(query'[1].result, query[1].result)]_vars

\* p + c returns values, and fewer than p did
C4_Witness ==
    /\ query # <<>>
    /\ Len(query[1].prefix) >= 2
    /\ query[1].result # <<>>
    /\ Len(lookup(keymap, SubSeq(query[1].prefix, 1, Len(query[1].prefix) - 1)))
          > Len(query[1].result)

----------------------------------------------------------------------------
(* The values of a document, by the path of one-char keys that leads to    *)
(* them.                                                                   *)

\* the value of key in the entries of an object: an Option
EntryOf(entries, key) ==
    IF \E i \in 1..Len(entries) : entries[i].k = key
    THEN <<(entries[CHOOSE i \in 1..Len(entries) : entries[i].k = key]).v>>
    ELSE <<>>

\* the value at the end of path, one object and one one-char key per char: an Option
RECURSIVE JsonAt(_, _)
JsonAt(value, path) ==
    IF path = <<>> THEN <<value>>
    ELSE IF value.t = "object" /\ EntryOf(value.o, <<Head(path)>>) # <<>>
         THEN JsonAt(EntryOf(value.o, <<Head(path)>>)[1], Tail(path))
         ELSE <<>>

\* every key of every object is the marker or one char, and every value under
\* a one-char key is an object
RECURSIVE OneCharPerLevel(_)
OneCharPerLevel(value) ==
    /\ value.t = "object"
    /\ \A i \in 1..Len(value.o) :
           value.o[i].k # Marker =>
               Len(value.o[i].k) = 1 /\ OneCharPerLevel(value.o[i].v)

IsString(value) == value.t = "string"

(* C5: in a trie built from a document nested one char per level, the     *)
(* full path of a node without children returns the strings of that       *)
(* node's marker array, in the array's order, and nothing else.            *)
C5_LeafReturnsItsMarkerArray ==
    query # <<>> /\ OneCharPerLevel(json) /\ JsonAt(json, query[1].prefix) # <<>> =>
        LET leaf == JsonAt(json, query[1].prefix)[1]
        IN  (/\ \A i \in 1..Len(leaf.o) : leaf.o[i].k = Marker
             /\ EntryOf(leaf.o, Marker) # <<>>
             /\ EntryOf(leaf.o, Marker)[1].t = "array")
              => LET strings == SelectSeq(EntryOf(leaf.o, Marker)[1].a, IsString)
                 IN  query[1].result = [i \in 1..Len(strings) |-> strings[i].s]

\* {"a": {"b": {">>": ["x"]}}} and the like, queried with the two chars; and a
\* leaf whose array holds two different strings
C5_Witness ==
    /\ query # <<>>
    /\ OneCharPerLevel(json)
    /\ Len(query[1].prefix) >= 1
    /\ JsonAt(json, query[1].prefix) # <<>>
    /\ LET leaf == JsonAt(json, query[1].prefix)[1]
       IN  /\ Len(leaf.o) = 1
           /\ leaf.o[1].k = Marker
           /\ leaf.o[1].v.t = "array"
           /\ Len(leaf.o[1].v.a) = 2
           /\ leaf.o[1].v.a[1].t = "string"
           /\ leaf.o[1].v.a[2].t = "string"
           /\ leaf.o[1].v.a[1] # leaf.o[1].v.a[2]
    /\ Len(query[1].result) = 2

----------------------------------------------------------------------------
(* The completion calls in sight: suspended, or just returned.             *)

Calls == inflight \cup {returned[i] : i \in DOMAIN returned}

\* Ok(None), or an empty array
NoSuggestions(call) == call.response = <<>> \/ call.response[1] = <<>>

\* the line the call addresses in the text it read: an Option
Addressed(call) ==
    IF call.seen = <<>> THEN <<>> ELSE nth(lines(call.seen[1]), call.position.line)

(* C6: a change notification replaces the stored text: the store holds    *)
(* for every uri the whole text of its latest notification, and every      *)
(* completion, also one suspended while other notifications arrive, has    *)
(* read the latest text of its document, whole.                            *)
C6_ChangeReplaces ==
    /\ documents = latest
    /\ \A call \in Calls :
           call.seen = (IF call.uri \in DOMAIN latest THEN <<latest[call.uri]>> ELSE <<>>)

\* a completion of u1 is suspended with its suggestions while u2 has been
\* given another text with a trigger
C6_Witness ==
    \E call \in inflight :
        /\ call.uri = "u1"
        /\ ~NoSuggestions(call)
        /\ "u2" \in DOMAIN documents
        /\ documents["u2"] # documents["u1"]
        /\ LastIndexOf(documents["u2"], 92) # 0

(* C7: a request whose line is at or beyond the line count of the          *)
(* document, or whose column is beyond the length of the addressed line,   *)
(* returns no suggestions.                                                 *)
C7_OutOfBoundsGivesNothing ==
    \A call \in Calls :
        (/\ call.seen # <<>>
         /\ \/ Addressed(call) = <<>>
            \/ call.position.character > Len(Addressed(call)[1]))
          => NoSuggestions(call)

(* C8: every candidate's span lies on the cursor's line, ends at the       *)
(* cursor and starts at the column of the last trigger before the cursor.  *)
C8_SpanStartsAtTrigger ==
    \A call \in Calls :
        ~NoSuggestions(call) =>
            \A i \in 1..Len(call.response[1]) :
                LET item == call.response[1][i]
                    before == SubSeq(Addressed(call)[1], 1,
                                     Min(call.position.character, Len(Addressed(call)[1])))
                IN  /\ item.start.line = call.position.line
                    /\ item.end = call.position
                    /\ item.start.character = LastIndexOf(before, 92) - 1

(* C9: when the addressed line holds no backslash before the cursor, the   *)
(* request yields no suggestions.                                          *)
C9_NoTriggerNoSuggestions ==
    \A call \in Calls :
        (/\ Addressed(call) # <<>>
         /\ \A i \in 1..Len(Addressed(call)[1]) :
                i <= call.position.character => Addressed(call)[1][i] # 92)
          => call.response = <<>>

\* the line has a backslash, but at or after the cursor, and chars before it
C9_Witness ==
    returned # <<>>
      /\ LET call == returned[1]
         IN  /\ Addressed(call) # <<>>
             /\ call.position.character >= 1
             /\ LastIndexOf(Addressed(call)[1], 92) > call.position.character
             /\ call.response = <<>>
             /\ keymap.cont # <<>>

(* C10: when the last trigger is the char just before the cursor, the      *)
(* request yields no suggestions; and no request hands the empty prefix   *)
(* to the trie.                                                            *)
C10_EmptyPrefixNeverLookedUp ==
    \A call \in Calls :
        /\ call.looked # <<>> => call.looked[1] # <<>>
        /\ (/\ Addressed(call) # <<>>
            /\ call.position.character >= 1
            /\ call.position.character <= Len(Addressed(call)[1])
            /\ Addressed(call)[1][call.position.character] = 92)
             => call.looked = <<>> /\ call.response = <<>>

\* the cursor right after a backslash, in a text the trie has values for
C10_Witness ==
    returned # <<>>
      /\ LET call == returned[1]
         IN  /\ Addressed(call) # <<>>
             /\ call.position.character = 2
             /\ Len(Addressed(call)[1]) >= 2
             /\ Addressed(call)[1][2] = 92
             /\ call.response = <<>>
             /\ lookup(keymap, <<>>) # <<>>

----------------------------------------------------------------------------
(* C12: the keymap is the trie built from keymap.json before the server    *)
(* serves, and no step of any handler changes it, so that a prefix gives   *)
(* the same lookup result before and after every step.                     *)
C12_KeymapNeverChanges ==
    /\ [](keymap \in Reorderings(new(json)))
    /\ [][keymap' = keymap]_vars

\* after shutdown, with both documents stored, a completion suspended before
\* the shutdown has returned the suggestions of the trie
C12_Witness ==
    /\ phase = "shutdown"
    /\ DOMAIN documents = Uris
    /\ returned # <<>>
    /\ ~NoSuggestions(returned[1])
    /\ lookup(keymap, <<97>>) # <<>>

(* C13: a uri that was closed and not opened or changed since, or that was *)
(* never opened, has no entry in the store, and every completion for it    *)
(* has found no document and returns no suggestions.                       *)
C13_ClosedHasNoEntry ==
    \A uri \in Uris :
        (uri \in closed \/ uri \notin DOMAIN latest)
          => /\ uri \notin DOMAIN documents
             /\ \A call \in Calls :
                    call.uri = uri => call.seen = <<>> /\ call.response = <<>>

\* a completion for a closed uri has returned no suggestions, while the other
\* document, which has a trigger and a prefix, is still stored
C13_Witness ==
    /\ returned # <<>>
    /\ returned[1].uri = "u1"
    /\ "u1" \in closed
    /\ returned[1].response = <<>>
    /\ returned[1].position.character >= 2
    /\ "u2" \in DOMAIN documents
    /\ LastIndexOf(documents["u2"], 92) = 1
    /\ Len(documents["u2"]) >= 2

----------------------------------------------------------------------------
(* The keys of an object that branch on char c, by their place in the      *)
(* order the object's iterator yields them.                                *)

KeysOf(entries, c) ==
    {i \in 1..Len(entries) :
        entries[i].k # Marker /\ entries[i].k # <<>> /\ Head(entries[i].k) = c}

LastOf(places) == CHOOSE i \in places : \A j \in places : j <= i

\* the same strings, each as many times
SameValues(s, t) == Included(s, t) /\ Included(t, s)

(* C14: when two or more keys of the document's object begin with the      *)
(* same char, the child under that char is the trie built from the value   *)
(* of the last of them, whatever that value is: below that char every      *)
(* lookup gives what it gives in the trie built from that value.           *)
C14_LastWriteWins ==
    \A c \in TrieChars :
        (json.t = "object" /\ Cardinality(KeysOf(json.o, c)) >= 2)
          => \A rest \in StringsUpTo(TrieChars, MaxPrefixLen - 1) :
                 SameValues(lookup(keymap, <<c>> \o rest),
                            lookup(new(json.o[LastOf(KeysOf(json.o, c))].v), rest))

\* the document with an empty object in the place of every value that is no
\* object where load expects one: the document itself and the values of the
\* keys that are not the marker
RECURSIVE AsIfEmpty(_), EntriesAsIfEmpty(_)
AsIfEmpty(value) ==
    IF value.t # "object" THEN JObject(<<>>) ELSE JObject(EntriesAsIfEmpty(value.o))

EntriesAsIfEmpty(entries) ==
    [i \in 1..Len(entries) |->
        IF entries[i].k = Marker THEN entries[i]
        ELSE [k |-> entries[i].k, v |-> AsIfEmpty(entries[i].v)]]

(* C15: a value that is no object where an object is expected is an empty  *)
(* node at its branch: every lookup in the trie built gives what it gives  *)
(* in the trie built from the document with an empty object in its place.  *)
C15_MalformedIsEmptyNode ==
    \A prefix \in StringsUpTo(TrieChars, MaxPrefixLen) :
        SameValues(lookup(keymap, prefix), lookup(new(AsIfEmpty(json)), prefix))

----------------------------------------------------------------------------
(* C11: no handler blocks for ever: a notification handler that waits      *)
(* for the document store, as one does when its change or close arrives   *)
(* while a completion of the same document is suspended at its log         *)
(* message, gets the store in the end and finishes.                        *)
C11_NoHandlerWaitsForever == (waiting # <<>>) ~> (waiting = <<>>)

----------------------------------------------------------------------------
(* C16: no request and no notification ends the serving loop: no handler   *)
(* faults, whatever its arguments are.                                     *)
C16_NoHandlerFaults == ~crashed

(* C17: whenever completion builds a candidate, the cursor column is at    *)
(* least the length in bytes of the prefix plus one: the subtraction of    *)
(* the start column does not underflow.                                    *)
C17_StartNeverUnderflows ==
    \A call \in Calls :
        ~NoSuggestions(call)
          => /\ call.position.character >= len(call.looked[1]) + 1
             /\ \A i \in 1..Len(call.response[1]) : call.response[1][i].start.character >= 0

----------------------------------------------------------------------------
\* the step is the handler of a notification for uri: did_close, did_change
\* with no change, or did_open / did_change with the text the store now holds
\* for uri (or any text, when the handler is left waiting)
Notification(uri) ==
    \/ DidClose(uri)
    \/ DidChange(uri, <<>>)
    \/ \E text \in {IF uri \in DOMAIN documents' THEN documents'[uri] ELSE <<>>} :
           DidOpen(uri, text) \/ DidChange(uri, <<text>>)

(* C18: a notification for one uri leaves the entry of every other uri as  *)
(* it is (no step that changes the entry of another uri is a notification  *)
(* for the uri), and every step that is no notification, a completion      *)
(* among them, leaves the whole store as it is.                            *)
C18_OtherEntriesUntouched ==
    [][/\ \A uri \in Uris :
              (\E other \in Uris \ {uri} :
                   DashGet(documents', other) # DashGet(documents, other))
                => ~Notification(uri)
       /\ documents' # documents => \E uri \in Uris : Notification(uri)]_vars

\* u2 was opened and closed while u1 stays stored, and a completion of u1 has
\* returned suggestions
C18_Witness ==
    /\ "u2" \in closed
    /\ "u1" \in DOMAIN documents
    /\ returned # <<>>
    /\ returned[1].uri = "u1"
    /\ ~NoSuggestions(returned[1])

====
